---- MODULE Spec2Model ----
(***************************************************************************)
(* Progressive-overload calculator: the RPE progression library            *)
(* (src/lib/rpe_progression.ts), the training zones (src/lib/zones.ts)     *)
(* and the POST handler of the workout route.                              *)
(*                                                                         *)
(* Number representation.  JavaScript numbers are modelled as exact        *)
(* rationals [n |-> numerator, d |-> denominator] in lowest terms with     *)
(* d > 0; d = 0 holds the non-finite values: [1,0] = Infinity,             *)
(* [-1,0] = -Infinity, [0,0] = NaN.  Reps, RIR and RPE arguments are held  *)
(* in eighths (Scale = 8), so RIR 2 is 16, RPE 9.5 is 76 and 5 reps is    *)
(* 40; percentages of the tables are held in tenths (92.2 is 922).         *)
(* An optional value is a sequence of length 0 (absent) or 1 (present).    *)
(*                                                                         *)
(* State.  pc, request, analysis, trace and response are one invocation of *)
(* the handler; calls holds several invocations side by side; shared is    *)
(* the module-level objects RPE_TABLE, NSCA_BASE_ROW and ZONE_PRESETS that *)
(* every invocation of the process reads; clock is the day of the system  *)
(* clock, counted in UTC days; fnArgs and fnOut are the arguments and the  *)
(* results of a library function called on its own.                        *)
(***************************************************************************)
EXTENDS Integers, Sequences, FiniteSets, TLC

VARIABLES pc, request, analysis, trace, response, fnArgs, fnOut,
          shared, clock, calls

vars == <<pc, request, analysis, trace, response, fnArgs, fnOut,
          shared, clock, calls>>

(***************************************************************************)
(* Bounds of the model                                                     *)
(***************************************************************************)
MaxEx == 2

MaxSets == 2

MaxFnReps == 52

MaxFnRir == 5

MaxLookReps == 14

MaxLookRPE == 11

MaxZoneReps == 22

MaxZoneRir == 5

MaxTargetReps == 31

MaxCalls == 2

MaxDay == 1
MaxRoundQuarters == 20

(***************************************************************************)
(* Scales                                                                  *)
(***************************************************************************)
Scale == 8

Tenth == 10

None == <<>>

Some(x) == <<x>>

(***************************************************************************)
(* Exact rational arithmetic standing for JavaScript numbers               *)
(***************************************************************************)
Abs(i) == IF i < 0 THEN -i ELSE i

Sign(i) == IF i < 0 THEN -1 ELSE IF i > 0 THEN 1 ELSE 0

RECURSIVE GCD(_, _)
GCD(a, b) == IF b = 0 THEN a ELSE GCD(b, a % b)

Rat(n, d) ==
  IF d = 0 THEN [n |-> Sign(n), d |-> 0]
  ELSE LET g == GCD(Abs(n), Abs(d))
       IN  [n |-> Sign(d) * (n \div g), d |-> Abs(d) \div g]

IntNum(i) == [n |-> i, d |-> 1]

Infinity == [n |-> 1, d |-> 0]

NaN == [n |-> 0, d |-> 0]

IsFinite(x) == x.d # 0

IsNaN(x) == x.d = 0 /\ x.n = 0

RMul(a, b) == Rat(a.n * b.n, a.d * b.d)

RDiv(a, b) == Rat(a.n * b.d, a.d * b.n)

RAdd(a, b) ==
  IF a.d = 0 /\ b.d = 0
  THEN (IF a.n = b.n THEN a ELSE NaN)
  ELSE Rat(a.n * b.d + b.n * a.d, a.d * b.d)

RNeg(a) == [n |-> -a.n, d |-> a.d]

RSub(a, b) == RAdd(a, RNeg(b))

RLess(a, b) ==
  /\ ~IsNaN(a)
  /\ ~IsNaN(b)
  /\ IF a.d = 0 /\ b.d = 0 THEN a.n < b.n ELSE a.n * b.d < b.n * a.d

RGreater(a, b) == RLess(b, a)

\* Math.max(a, b)
MathMax(a, b) ==
  IF IsNaN(a) \/ IsNaN(b) THEN NaN
  ELSE IF RLess(a, b) THEN b ELSE a

\* Math.min(a, b)
MathMin(a, b) ==
  IF IsNaN(a) \/ IsNaN(b) THEN NaN
  ELSE IF RLess(b, a) THEN b ELSE a

\* a variant that rounds a half away from zero
MathRoundHalfAway(x) ==
  IF x.d = 0 THEN x
  ELSE IntNum(Sign(x.n) * ((2 * Abs(x.n) + x.d) \div (2 * x.d)))

\* Math.round(x): floor(x + 1/2); non-finite values are returned unchanged
MathRound(x) ==
  IF x.d = 0 THEN x
  ELSE IntNum((2 * x.n + x.d) \div (2 * x.d))

\* Number(x.toFixed(digits)) for a plain rational: the magnitude is rounded
\* half up to 10^-digits and the sign restored
ToFixed(x, pow10) ==
  IF x.d = 0 THEN x
  ELSE Rat(Sign(x.n) * ((2 * Abs(x.n) * pow10 + x.d) \div (2 * x.d)), pow10)

\* JSON.stringify of a number: NaN and the infinities are written as null
JsonNum(x) == IF x.d = 0 THEN None ELSE Some(x)

(***************************************************************************)
(* rpe_progression.ts: the reference tables                                *)
(***************************************************************************)
\* the keys 10, 9.5, ..., 6.5 of the maps
RPEKeys == {(Scale \div 2) * h : h \in 13..20}

\* a variant that reads a row as if it were written RPE 6.5 first
RowMapAscending(row) ==
  [k \in RPEKeys |-> row[((k - 13 * (Scale \div 2)) \div (Scale \div 2)) + 1]]

\* a row written as in the source, RPE 10 first, as a map RPE -> tenths
RowMap(row) == [k \in RPEKeys |-> row[((10 * Scale - k) \div (Scale \div 2)) + 1]]

NSCA_BASE_ROW == RowMap(<<1000, 978, 955, 939, 922, 907, 892, 878>>)

\* a variant in which every reps row is the row of 1 rep
RPE_TABLE_SameRows ==
  [r \in 1..12 |-> RowMap(<<1000, 978, 955, 939, 922, 907, 892, 878>>)]

RPE_TABLE ==
  [r \in 1..12 |->
    RowMap(CASE r = 1  -> <<1000, 978, 955, 939, 922, 907, 892, 878>>
             [] r = 2  -> <<955, 939, 922, 907, 892, 878, 864, 850>>
             [] r = 3  -> <<922, 907, 892, 878, 864, 850, 837, 824>>
             [] r = 4  -> <<892, 878, 864, 850, 837, 824, 811, 798>>
             [] r = 5  -> <<863, 850, 837, 824, 811, 799, 786, 774>>
             [] r = 6  -> <<837, 824, 811, 799, 786, 774, 762, 751>>
             [] r = 7  -> <<811, 799, 786, 774, 762, 751, 739, 723>>
             [] r = 8  -> <<786, 774, 762, 751, 739, 723, 707, 694>>
             [] r = 9  -> <<762, 751, 739, 723, 707, 694, 680, 667>>
             [] r = 10 -> <<739, 723, 707, 694, 680, 667, 653, 640>>
             [] r = 11 -> <<707, 694, 680, 667, 653, 640, 626, 613>>
             [] r = 12 -> <<680, 667, 653, 640, 626, 613, 599, 586>>)]

(***************************************************************************)
(* rpe_progression.ts: the estimators and the lookups                      *)
(***************************************************************************)
\* Array.from(map.keys()).sort((a, b) => b - a)
RECURSIVE SortDesc(_)
SortDesc(S) ==
  IF S = {} THEN <<>>
  ELSE LET m == CHOOSE x \in S : \A y \in S : y <= x
       IN  <<m>> \o SortDesc(S \ {m})

\* a variant of the loop in which a later key at equal distance replaces the
\* earlier one
RECURSIVE ClosestLoopLastWins(_, _, _, _, _)
ClosestLoopLastWins(keys, i, clamped, closest, minDiff) ==
  IF i > Len(keys) THEN closest
  ELSE LET diff == Abs(clamped - keys[i])
       IN  IF diff <= minDiff
           THEN ClosestLoopLastWins(keys, i + 1, clamped, keys[i], diff)
           ELSE ClosestLoopLastWins(keys, i + 1, clamped, closest, minDiff)

\* the loop "for (const rpeVal of availableRPEs) if (diff < minDiff) ..."
RECURSIVE ClosestLoop(_, _, _, _, _)
ClosestLoop(keys, i, clamped, closest, minDiff) ==
  IF i > Len(keys) THEN closest
  ELSE LET diff == Abs(clamped - keys[i])
       IN  IF diff < minDiff
           THEN ClosestLoop(keys, i + 1, clamped, keys[i], diff)
           ELSE ClosestLoop(keys, i + 1, clamped, closest, minDiff)

\* a variant that keeps the first key and does not search
ClosestRPEFirstKey(map, clampedRPE) ==
  LET availableRPEs == SortDesc(DOMAIN map)
  IN  availableRPEs[1]

ClosestRPE(map, clampedRPE) ==
  LET availableRPEs == SortDesc(DOMAIN map)
  IN  ClosestLoop(availableRPEs, 1, clampedRPE, availableRPEs[1],
                  Abs(clampedRPE - availableRPEs[1]))

\* Math.max(6.5, Math.min(10, RPE))
ClampRPE(rpe) ==
  LET lo == IF rpe < 10 * Scale THEN rpe ELSE 10 * Scale
  IN  IF lo > 13 * (Scale \div 2) THEN lo ELSE 13 * (Scale \div 2)

\* a variant that counts at most 12 reps
e1rmPerformanceCapped(weight, reps, RIR) ==
  LET capped == IF reps > 12 * Scale THEN 12 * Scale ELSE reps
  IN  Rat(weight * (30 * Scale + capped + RIR), 30 * Scale)

\* weight * (1 + (reps + RIR) / 30)
e1rmPerformance(weight, reps, RIR) ==
  Rat(weight * (30 * Scale + reps + RIR), 30 * Scale)

\* a variant that charges the decay for every rep, the first included
e1rmPerceivedDropAllReps(weight, reps, RIR, baseRow, perRirDropPct) ==
  LET RPE            == 10 * Scale - RIR
      clampedRPE     == ClampRPE(RPE)
      closestRPE     == ClosestRPE(baseRow, clampedRPE)
      basePercent    == Rat(baseRow[closestRPE], Tenth)
      additionalReps == IF reps > 0 THEN Rat(reps, Scale) ELSE IntNum(0)
      adjustedPercent == RSub(basePercent, RMul(additionalReps, perRirDropPct))
  IN  RMul(RDiv(IntNum(weight), adjustedPercent), IntNum(100))

e1rmPerceivedWith(weight, reps, RIR, baseRow, perRirDropPct) ==
  LET RPE            == 10 * Scale - RIR
      clampedRPE     == ClampRPE(RPE)
      closestRPE     == ClosestRPE(baseRow, clampedRPE)
      basePercent    == Rat(baseRow[closestRPE], Tenth)
      additionalReps == IF reps - Scale > 0 THEN Rat(reps - Scale, Scale)
                                            ELSE IntNum(0)
      adjustedPercent == RSub(basePercent, RMul(additionalReps, perRirDropPct))
  IN  RMul(RDiv(IntNum(weight), adjustedPercent), IntNum(100))

\* the defaults of the signature: baseRow = NSCA_BASE_ROW, perRirDropPct = 2.0
e1rmPerceived(weight, reps, RIR) ==
  e1rmPerceivedWith(weight, reps, RIR, shared.NSCA_BASE_ROW, IntNum(2))

\* a variant that returns the percentage the perceived estimator divides
\* by: the base-row entry less 2 per rep after the first
getPercentFromRPETableDecayedBase(reps, RPE) ==
  LET closestRPE == ClosestRPE(shared.NSCA_BASE_ROW, ClampRPE(RPE))
      additionalReps == IF reps - Scale > 0 THEN Rat(reps - Scale, Scale)
                                            ELSE IntNum(0)
  IN  RSub(Rat(shared.NSCA_BASE_ROW[closestRPE], Tenth),
           RMul(additionalReps, IntNum(2)))

\* a variant that rounds reps but does not clamp them to 1..12
getPercentFromRPETableNoRepsClamp(reps, RPE) ==
  LET rounded     == (2 * reps + Scale) \div (2 * Scale)
      clampedReps == rounded
      clampedRPE  == ClampRPE(RPE)
  IN  IF clampedReps \notin DOMAIN shared.RPE_TABLE THEN IntNum(75)
      ELSE LET repsMap    == shared.RPE_TABLE[clampedReps]
               closestRPE == ClosestRPE(repsMap, clampedRPE)
           IN  Rat(repsMap[closestRPE], Tenth)

getPercentFromRPETable(reps, RPE) ==
  LET rounded     == (2 * reps + Scale) \div (2 * Scale)
      upTo12      == IF rounded < 12 THEN rounded ELSE 12
      clampedReps == IF upTo12 > 1 THEN upTo12 ELSE 1
      clampedRPE  == ClampRPE(RPE)
  IN  IF clampedReps \notin DOMAIN shared.RPE_TABLE THEN IntNum(75)
      ELSE LET repsMap    == shared.RPE_TABLE[clampedReps]
               closestRPE == ClosestRPE(repsMap, clampedRPE)
           IN  Rat(repsMap[closestRPE], Tenth)

loadFromBaselineUsingPercent(baseline1RM, targetReps, targetRIR, roundIncrement) ==
  LET targetRPE   == 10 * Scale - targetRIR
      basePercent == getPercentFromRPETable(targetReps, targetRPE)
      loadKg      == RDiv(RMul(baseline1RM, basePercent), IntNum(100))
  IN  RMul(MathRound(RDiv(loadKg, roundIncrement)), roundIncrement)

(***************************************************************************)
(* zones.ts                                                                *)
(***************************************************************************)
\* a variant with the set counts of REFACTORING_SUMMARY.md: 4, 4 and 3
ZONE_PRESETS_AsDocumented ==
  [STRENGTH    |-> [low |-> 1,  high |-> 5,  defaultReps |-> 3,  targetRIR |-> 2,
                    sets |-> 4, restTime |-> "2 minutes 30 seconds"],
   HYPERTROPHY |-> [low |-> 6,  high |-> 12, defaultReps |-> 8,  targetRIR |-> 2,
                    sets |-> 4, restTime |-> "1 minute 30 seconds"],
   ENDURANCE   |-> [low |-> 12, high |-> 20, defaultReps |-> 15, targetRIR |-> 2,
                    sets |-> 3, restTime |-> "45 seconds"]]

ZONE_PRESETS ==
  [STRENGTH    |-> [low |-> 1,  high |-> 5,  defaultReps |-> 3,  targetRIR |-> 2,
                    sets |-> 3, restTime |-> "2 minutes 30 seconds"],
   HYPERTROPHY |-> [low |-> 6,  high |-> 12, defaultReps |-> 8,  targetRIR |-> 2,
                    sets |-> 3, restTime |-> "1 minute 30 seconds"],
   ENDURANCE   |-> [low |-> 12, high |-> 20, defaultReps |-> 15, targetRIR |-> 2,
                    sets |-> 3, restTime |-> "45 seconds"]]

\* a variant that takes only an absent argument for the default, so that 0
\* is clamped like any other number
clampToZoneRepsZeroClamped(zone, targetReps) ==
  LET preset == shared.ZONE_PRESETS[zone]
  IN  IF targetReps = None THEN preset.defaultReps
      ELSE LET t    == targetReps[1]
               upTo == IF preset.high < t THEN preset.high ELSE t
           IN  IF preset.low > upTo THEN preset.low ELSE upTo

\* targetReps is optional and counted in whole reps
clampToZoneReps(zone, targetReps) ==
  LET preset == shared.ZONE_PRESETS[zone]
  IN  IF targetReps = None \/ targetReps = Some(0) THEN preset.defaultReps
      ELSE LET t    == targetReps[1]
               upTo == IF preset.high < t THEN preset.high ELSE t
           IN  IF preset.low > upTo THEN preset.low ELSE upTo

\* a variant that looks at the reps only
isInTopOfRangeRepsOnly(reps, RIR, zone) ==
  LET preset == shared.ZONE_PRESETS[zone]
  IN  reps >= Scale * preset.high

\* a variant that asks for a RIR strictly under the target
isInTopOfRangeStrictRIR(reps, RIR, zone) ==
  LET preset == shared.ZONE_PRESETS[zone]
  IN  reps >= Scale * preset.high /\ RIR < Scale * preset.targetRIR

isInTopOfRange(reps, RIR, zone) ==
  LET preset == shared.ZONE_PRESETS[zone]
  IN  reps >= Scale * preset.high /\ RIR <= Scale * preset.targetRIR

\* a variant that looks at the RIR only
isBelowRangeRirOnly(reps, RIR, zone) ==
  LET preset == shared.ZONE_PRESETS[zone]
  IN  RIR > Scale * (preset.targetRIR + 1)

isBelowRange(reps, RIR, zone) ==
  LET preset == shared.ZONE_PRESETS[zone]
  IN  reps < Scale * preset.low \/ RIR > Scale * (preset.targetRIR + 1)

(***************************************************************************)
(* route.ts: unit conversion.  1 kg = 2.2046226218 lb; the factor is kept  *)
(* as four base-1000 limbs of 22046226218 (it does not fit 32 bits), and *)
(* a converted value is [v |-> rational, f |-> power of the factor].       *)
(***************************************************************************)
Limb == 1000

\* 22046226218 = 22 * 10^9 + 46 * 10^6 + 226 * 10^3 + 218
FactorLimbs == <<22, 46, 226, 218>>

\* m * 22046226218 as <<a, lo>> with value a * 10^9 + lo and 0 <= lo < 10^9
TimesFactor(m) ==
  LET d0 == m * FactorLimbs[4]
      d1 == m * FactorLimbs[3] + (d0 \div Limb)
      d2 == m * FactorLimbs[2] + (d1 \div Limb)
      d3 == m * FactorLimbs[1] + (d2 \div Limb)
  IN  <<d3, ((d2 % Limb) * Limb + (d1 % Limb)) * Limb + (d0 % Limb)>>

\* m * 2.2046226218 <= t
LeqTimesFactor(m, t) ==
  LET p == TimesFactor(m)
  IN  p[1] < 10 * t \/ (p[1] = 10 * t /\ p[2] = 0)

\* Math.round(x * 2.2046226218) for a rational x
MathRoundTimesFactor(x) ==
  IF x.d = 0 THEN x
  ELSE IntNum((TimesFactor(2 * x.n)[1] + 10 * x.d) \div (20 * x.d))

\* Number((x / 2.2046226218).toFixed(digits)) for a rational x
ToFixedOverFactor(x, pow10) ==
  IF x.d = 0 THEN x
  ELSE LET n   == Abs(x.n)
           t   == 2 * pow10 * n
           h0  == (pow10 * n * 1000) \div (x.d * 2205)
           win == (h0 \div 4000) + 2
           h  == CHOOSE k \in (h0 - win)..(h0 + win) :
                   /\ LeqTimesFactor((2 * k - 1) * x.d, t)
                   /\ ~LeqTimesFactor((2 * k + 1) * x.d, t)
       IN  Rat(Sign(x.n) * h, pow10)

toLbs(value, unit) == [v |-> value, f |-> IF unit = "kg" THEN 1 ELSE 0]

fromLbs(valueLbs, unit) == [v |-> valueLbs, f |-> IF unit = "kg" THEN -1 ELSE 0]

\* a variant that rounds the number it is given without regard to the unit
roundToNearest25Direct(lbs) ==
  RMul(MathRound(RDiv(lbs.v, Rat(5, 2))), Rat(5, 2))

\* Math.round(lbs / 2.5) * 2.5
roundToNearest25lbs(lbs) ==
  LET steps == RDiv(lbs.v, Rat(5, 2))
  IN  RMul(IF lbs.f = 1 THEN MathRoundTimesFactor(steps) ELSE MathRound(steps),
           Rat(5, 2))

\* Number(w.toFixed(digits)) of a converted value
ToFixedConv(w, pow10) ==
  IF w.f = -1 THEN ToFixedOverFactor(w.v, pow10) ELSE ToFixed(w.v, pow10)

(***************************************************************************)
(* route.ts: the POST handler                                              *)
(*                                                                         *)
(* A request body is [isNull, previousWorkout, weightUnit, goal]; a        *)
(* previous workout is [goal, split, exerciseInstances] where              *)
(* exerciseInstances is absent when the field is not an array; an exercise *)
(* is [isNull, name, setsKind, sets] with setsKind "array", "absent"       *)
(* (undefined or null) or "notIterable"; a set is [weight, reps, rir].     *)
(***************************************************************************)
roundIncrement == Rat(5, 2)

\* a variant of the scan in which a later set of equal score replaces the
\* earlier one
RECURSIVE TopSetLoopLastWins(_, _, _, _)
TopSetLoopLastWins(sets, i, topSet, maxEpleyScore) ==
  IF i > Len(sets) THEN topSet
  ELSE LET s          == sets[i]
           rir        == IF s.rir = None THEN 2 * Scale ELSE s.rir[1]
           epleyScore == e1rmPerformance(s.weight, s.reps, rir)
       IN  IF RGreater(epleyScore, maxEpleyScore)
              \/ (epleyScore = maxEpleyScore /\ topSet # None)
           THEN TopSetLoopLastWins(sets, i + 1,
                           Some([weight |-> s.weight, reps |-> s.reps, rir |-> rir]),
                           epleyScore)
           ELSE TopSetLoopLastWins(sets, i + 1, topSet, maxEpleyScore)

\* a variant of the scan that takes the first set whatever its score
RECURSIVE TopSetLoopFirstAlways(_, _, _, _)
TopSetLoopFirstAlways(sets, i, topSet, maxEpleyScore) ==
  IF i > Len(sets) THEN topSet
  ELSE LET s          == sets[i]
           rir        == IF s.rir = None THEN 2 * Scale ELSE s.rir[1]
           epleyScore == e1rmPerformance(s.weight, s.reps, rir)
       IN  IF topSet = None \/ RGreater(epleyScore, maxEpleyScore)
           THEN TopSetLoopFirstAlways(sets, i + 1,
                           Some([weight |-> s.weight, reps |-> s.reps, rir |-> rir]),
                           epleyScore)
           ELSE TopSetLoopFirstAlways(sets, i + 1, topSet, maxEpleyScore)

\* lines 91-102: the scan for the top set
RECURSIVE TopSetLoop(_, _, _, _)
TopSetLoop(sets, i, topSet, maxEpleyScore) ==
  IF i > Len(sets) THEN topSet
  ELSE LET s          == sets[i]
           rir        == IF s.rir = None THEN 2 * Scale ELSE s.rir[1]
           epleyScore == e1rmPerformance(s.weight, s.reps, rir)
       IN  IF RGreater(epleyScore, maxEpleyScore)
           THEN TopSetLoop(sets, i + 1,
                           Some([weight |-> s.weight, reps |-> s.reps, rir |-> rir]),
                           epleyScore)
           ELSE TopSetLoop(sets, i + 1, topSet, maxEpleyScore)

\* a variant that bases the prescription on the performance estimate
ChooseBaselinePerformance(estimated1RM, perceived1RM) == estimated1RM

\* the baseline chosen at line 128
ChooseBaseline(estimated1RM, perceived1RM) == perceived1RM

\* lines 89-144: the callback of the first map; ex.sets || [] is the empty
\* list when sets is absent
AnalyzeExercise(ex) ==
  LET sets   == IF ex.setsKind = "array" THEN ex.sets ELSE <<>>
      topSet == TopSetLoop(sets, 1, None, IntNum(0))
  IN  IF topSet = None
      THEN [name |-> ex.name, topSet |-> None,
            estimated1RM |-> IntNum(0), perceived1RM |-> IntNum(0),
            currentBaseline |-> None, rpeChartPercent |-> None]
      ELSE LET t            == topSet[1]
               estimated1RM == e1rmPerformance(t.weight, t.reps, t.rir)
               perceived1RM == e1rmPerceivedWith(t.weight, t.reps, t.rir,
                                                 shared.NSCA_BASE_ROW, IntNum(2))
               rpe          == 10 * Scale - t.rir
           IN  [name |-> ex.name,
                topSet |-> Some([weight |-> t.weight, reps |-> t.reps,
                                 rir |-> t.rir, rpe |-> rpe]),
                estimated1RM |-> estimated1RM,
                perceived1RM |-> perceived1RM,
                currentBaseline |-> Some(ChooseBaseline(estimated1RM, perceived1RM)),
                rpeChartPercent |-> Some(getPercentFromRPETable(t.reps, rpe))]

\* a variant in which an exercise without sets is a fault
AnalyzeThrowsOnEmpty(ex) ==
  ex.isNull \/ ex.setsKind = "notIterable" \/ ex.setsKind = "absent" \/ ex.sets = <<>>

\* a variant in which sets that cannot be iterated are taken as no sets
AnalyzeThrowsNullOnly(ex) == ex.isNull

\* the evaluation of the callback throws a TypeError: ex is null, or
\* ex.sets is truthy and not iterable
AnalyzeThrows(ex) == ex.isNull \/ ex.setsKind = "notIterable"

\* a variant that also takes a negative or infinite baseline as missing
FalsyOrNotPositive(optNum) ==
  optNum = None \/ optNum[1].d = 0 \/ optNum[1].n <= 0

\* !x for an optional number: undefined, 0 and NaN are falsy
Falsy(optNum) == optNum = None \/ optNum[1] = IntNum(0) \/ IsNaN(optNum[1])

\* a variant without the floor of the below-range branch
AdjustLoadNoFloor(plannedWeight, inTopOfRange, belowRange) ==
  IF inTopOfRange
  THEN MathMax(roundIncrement, RAdd(plannedWeight, roundIncrement))
  ELSE IF belowRange
       THEN RSub(plannedWeight, roundIncrement)
       ELSE plannedWeight

\* lines 184-189: the progressive overload adjustment
AdjustLoad(plannedWeight, inTopOfRange, belowRange) ==
  IF inTopOfRange
  THEN MathMax(roundIncrement, RAdd(plannedWeight, roundIncrement))
  ELSE IF belowRange
       THEN MathMax(roundIncrement, RSub(plannedWeight, roundIncrement))
       ELSE plannedWeight

\* lines 168-194: the local values of the second map's callback
PlanLocals(ex, goal, unit) ==
  LET zonePreset   == shared.ZONE_PRESETS[goal]
      topSet       == ex.topSet[1]
      inTopOfRange == isInTopOfRange(topSet.reps, topSet.rir, goal)
      belowRange   == isBelowRange(topSet.reps, topSet.rir, goal)
      targetReps   == clampToZoneReps(goal, Some(zonePreset.defaultReps))
      targetRIR    == zonePreset.targetRIR
      baseLoad     == loadFromBaselineUsingPercent(ex.currentBaseline[1],
                        Scale * targetReps, Scale * targetRIR, roundIncrement)
      plannedWeight == AdjustLoad(baseLoad, inTopOfRange, belowRange)
      plannedLbs   == toLbs(plannedWeight, unit)
      roundedLbs   == roundToNearest25lbs(plannedLbs)
  IN  [inTopOfRange |-> inTopOfRange, belowRange |-> belowRange,
       targetReps |-> targetReps, targetRIR |-> targetRIR,
       baseLoad |-> baseLoad, plannedWeight |-> plannedWeight,
       roundedLbs |-> roundedLbs, finalWeight |-> fromLbs(roundedLbs, unit)]

\* a variant that numbers the sets from 0, as the index of the array does
NewSetsFromZero(ex, goal, unit, loc) ==
  LET zonePreset == shared.ZONE_PRESETS[goal]
      weight     == ToFixedConv(loc.finalWeight, 100)
  IN  [idx \in 1..zonePreset.sets |->
        [setIndex |-> idx - 1,
         weight |-> JsonNum(weight),
         reps |-> loc.targetReps,
         targetRPE |-> 10 - loc.targetRIR,
         percentOf1RM |->
           JsonNum(ToFixed(RMul(RDiv(weight, ex.perceived1RM), IntNum(100)), 10)),
         notes |-> [zone |-> goal,
                    perceived1RM |-> ToFixed(ex.currentBaseline[1], 10),
                    unit |-> unit]]]

\* lines 196-202 and 214-221: the sets of one prescription, as serialised
NewSets(ex, goal, unit, loc) ==
  LET zonePreset == shared.ZONE_PRESETS[goal]
      weight     == ToFixedConv(loc.finalWeight, 100)
  IN  [idx \in 1..zonePreset.sets |->
        [setIndex |-> idx,
         weight |-> JsonNum(weight),
         reps |-> loc.targetReps,
         targetRPE |-> 10 - loc.targetRIR,
         percentOf1RM |->
           JsonNum(ToFixed(RMul(RDiv(weight, ex.perceived1RM), IntNum(100)), 10)),
         notes |-> [zone |-> goal,
                    perceived1RM |-> ToFixed(ex.currentBaseline[1], 10),
                    unit |-> unit]]]

\* lines 151-224: the callback of the second map
RecommendExercise(ex, goal, unit) ==
  LET zonePreset == shared.ZONE_PRESETS[goal]
  IN  IF ex.topSet = None \/ Falsy(ex.currentBaseline)
      THEN [name |-> ex.name,
            perceived1RM |-> JsonNum(IntNum(0)),
            estimated1RM |-> JsonNum(IntNum(0)),
            topSetRPE |-> 0,
            recommended |-> [targetPercentRange |-> <<zonePreset.low, zonePreset.high>>,
                             targetReps |-> zonePreset.defaultReps,
                             sets |-> <<>>]]
      ELSE LET loc == PlanLocals(ex, goal, unit)
           IN  [name |-> ex.name,
                perceived1RM |-> JsonNum(ToFixed(ex.perceived1RM, 100)),
                estimated1RM |-> JsonNum(ToFixed(ex.estimated1RM, 100)),
                topSetRPE |-> ex.topSet[1].rpe,
                recommended |-> [targetPercentRange |-> <<zonePreset.low, zonePreset.high>>,
                                 targetReps |-> loc.targetReps,
                                 sets |-> NewSets(ex, goal, unit, loc)]]

\* the locals recorded for an exercise: absent on the early return
LocalsOf(ex, goal, unit) ==
  IF ex.topSet = None \/ Falsy(ex.currentBaseline) THEN None
  ELSE Some(PlanLocals(ex, goal, unit))

\* a variant that reports the two estimates under each other's name
DetailOfSwapped(ex) ==
  [name |-> ex.name,
   topSet |-> IF ex.topSet = None
              THEN [weight |-> 0, reps |-> 0, rir |-> 0, rpe |-> 0]
              ELSE ex.topSet[1],
   perceived1RM |-> JsonNum(ex.estimated1RM),
   estimated1RM |-> JsonNum(ex.perceived1RM),
   rpeChartPercent |-> IF ex.rpeChartPercent = None THEN IntNum(0)
                       ELSE ex.rpeChartPercent[1]]

\* lines 239-252: one entry of the calculation details
DetailOf(ex) ==
  [name |-> ex.name,
   topSet |-> IF ex.topSet = None
              THEN [weight |-> 0, reps |-> 0, rir |-> 0, rpe |-> 0]
              ELSE ex.topSet[1],
   perceived1RM |-> JsonNum(ex.perceived1RM),
   estimated1RM |-> JsonNum(ex.estimated1RM),
   rpeChartPercent |-> IF ex.rpeChartPercent = None THEN IntNum(0)
                       ELSE ex.rpeChartPercent[1]]

\* a variant that lets a top-level goal of the request override the session's
ResolveGoalExplicitFirst(body) ==
  IF body.goal # None THEN body.goal[1]
  ELSE IF body.previousWorkout[1].goal = None THEN "HYPERTROPHY"
  ELSE body.previousWorkout[1].goal[1]

\* line 147: previousWorkout.goal ?? "HYPERTROPHY"
ResolveGoal(body) ==
  IF body.previousWorkout[1].goal = None THEN "HYPERTROPHY"
  ELSE body.previousWorkout[1].goal[1]

\* line 81: body.weightUnit ?? "lbs"
ResolveUnit(body) == IF body.weightUnit = None THEN "lbs" ELSE body.weightUnit[1]

\* line 83: the validation of the payload
InvalidPayload(body) ==
  body.previousWorkout = None \/ body.previousWorkout[1].exerciseInstances = None

\* a variant that omits the status option, so the response is sent as 200
ErrorResponseNoStatus(status, message, errorText) ==
  [status |-> 200, error |-> Some(message), errorText |-> errorText,
   newWorkout |-> None, details |-> None]

\* an error response; on the 500 path "details" is the text of the error,
\* kept apart from the per-exercise details of a success as errorText
ErrorResponse(status, message, errorText) ==
  [status |-> status, error |-> Some(message), errorText |-> errorText,
   newWorkout |-> None, details |-> None]

\* the whole handler as a function of the parsed body: the response, the
\* array "exercises" of the first map and the locals of the second map
Handle(body) ==
  IF body.isNull
  THEN [response |-> ErrorResponse(500, "Unexpected error", Some("TypeError")),
        analysis |-> <<>>, trace |-> <<>>]
  ELSE IF InvalidPayload(body)
  THEN [response |-> ErrorResponse(400, "Invalid previousWorkout payload", None),
        analysis |-> <<>>, trace |-> <<>>]
  ELSE LET instances == body.previousWorkout[1].exerciseInstances[1]
           unit      == ResolveUnit(body)
           goal      == ResolveGoal(body)
       IN  IF \E i \in 1..Len(instances) : AnalyzeThrows(instances[i])
           THEN [response |-> ErrorResponse(500, "Unexpected error", Some("TypeError")),
                 analysis |-> <<>>, trace |-> <<>>]
           ELSE LET exercises == [i \in 1..Len(instances) |->
                                    AnalyzeExercise(instances[i])]
                IN  IF goal \notin DOMAIN shared.ZONE_PRESETS /\ Len(exercises) > 0
                    THEN [response |-> ErrorResponse(500, "Unexpected error", Some("TypeError")),
                          analysis |-> <<>>, trace |-> <<>>]
                    ELSE [response |->
                            [status |-> 200, error |-> None, errorText |-> None,
                             newWorkout |-> Some(
                               [split |-> IF body.previousWorkout[1].split = None
                                          THEN ""
                                          ELSE body.previousWorkout[1].split[1],
                                goal |-> goal,
                                status |-> "planned",
                                exerciseInstances |->
                                  [i \in 1..Len(exercises) |->
                                     RecommendExercise(exercises[i], goal, unit)]]),
                             details |-> Some(
                               [exercises |-> [i \in 1..Len(exercises) |->
                                                 DetailOf(exercises[i])]])],
                          analysis |-> exercises,
                          trace |-> [i \in 1..Len(exercises) |->
                                       LocalsOf(exercises[i], goal, unit)]]

(***************************************************************************)
(* The requests the callers send                                           *)
(***************************************************************************)
SeqsUpTo(S, n) == UNION {[1..k -> S] : k \in 0..n}

LoggedSet(w, r, rir) == [weight |-> w, reps |-> r, rir |-> rir]

\* the logged sets of the well-formed single-exercise requests:
\*   185 x 5 at RIR 2       the documented example
\*   185 x 5 at RIR 3 and 185 x 8 at RIR 0    two sets of equal Epley score
\*   185 x 8 at RIR 2, 185 x 8 at RIR 4, 185 x 12 at RIR 2
\*   1 x 8 at RIR 2         a load that rounds to nothing
\*   185 x 51 at RIR 0, 2, 3   the decayed percentage is 0 or negative
\*   0 x 8                  a set that logs no weight
SetPool ==
  {LoggedSet(185, 5 * Scale, Some(2 * Scale)), LoggedSet(185, 5 * Scale, Some(3 * Scale)), LoggedSet(185, 8 * Scale, Some(0)),
   LoggedSet(185, 8 * Scale, Some(2 * Scale)), LoggedSet(185, 8 * Scale, Some(4 * Scale)), LoggedSet(185, 12 * Scale, Some(2 * Scale)),
   LoggedSet(1, 8 * Scale, Some(2 * Scale)),
   LoggedSet(185, 51 * Scale, Some(0)), LoggedSet(185, 51 * Scale, Some(2 * Scale)), LoggedSet(185, 51 * Scale, Some(3 * Scale)),
   LoggedSet(0, 8 * Scale, None)}

SmallSetPool == {LoggedSet(185, 5 * Scale, None)}

Exercise(name, kind, sets) ==
  [isNull |-> FALSE, name |-> name, setsKind |-> kind, sets |-> sets]

NullExercise == [isNull |-> TRUE, name |-> "", setsKind |-> "absent", sets |-> <<>>]

\* one well-formed exercise with any sets of the pool
RichExercises == {Exercise("Bench Press", "array", ss) : ss \in SeqsUpTo(SetPool, MaxSets)}

\* well-formed and malformed exercises over the small pool
SmallExercises ==
  {Exercise("Bench Press", "array", ss) : ss \in SeqsUpTo(SmallSetPool, MaxSets)}
  \cup {Exercise("Squat", k, <<>>) : k \in {"array", "absent", "notIterable"}}
  \cup {Exercise("Squat", "array", <<LoggedSet(100, 12 * Scale, Some(2 * Scale))>>)}
  \cup {NullExercise}

Workout(goal, split, instances) ==
  [goal |-> goal, split |-> split, exerciseInstances |-> instances]

Body(pw, unit, goal) ==
  [isNull |-> FALSE, previousWorkout |-> pw, weightUnit |-> unit, goal |-> goal]

NullBody == [isNull |-> TRUE, previousWorkout |-> None, weightUnit |-> None, goal |-> None]

GoalNames == {"STRENGTH", "HYPERTROPHY", "ENDURANCE"}

RichRequests ==
  {Body(Some(Workout(g, Some("Upper"), Some(<<ex>>))), Some(u), None) :
     g \in {Some(x) : x \in GoalNames}, u \in {"lbs", "kg"},
     ex \in RichExercises}

\* the fields beside previousWorkout: weightUnit and a top-level goal
Envelopes == {<<None, None>>, <<Some("kg"), None>>, <<None, Some("STRENGTH")>>}

SmallRequests ==
  {Body(Some(Workout(g, None, Some(exs))), env[1], env[2]) :
     g \in {None, Some("POWER"), Some("STRENGTH"), Some("ENDURANCE")},
     env \in Envelopes,
     exs \in SeqsUpTo(SmallExercises, MaxEx)}

MalformedRequests ==
  {NullBody}
  \cup {Body(None, u, bg) : u \in {None, Some("kg")}, bg \in {None, Some("STRENGTH")}}
  \cup {Body(Some(Workout(g, None, None)), u, None) :
          g \in {None, Some("STRENGTH")}, u \in {None, Some("kg")}}

\* two exercises, the first with a set whose decayed percentage is 0
\* (185 x 51 at RIR 0) or negative (185 x 51 at RIR 2) or with a set that
\* logs no weight or a negative one, the second an ordinary one
MixedRequests ==
  {Body(Some(Workout(None, None,
          Some(<<Exercise("Bench Press", "array", <<s>>),
                 Exercise("Squat", "array",
                          <<LoggedSet(100, 12 * Scale, Some(2 * Scale))>>)>>))),
        None, None) :
     s \in {LoggedSet(185, 51 * Scale, Some(0)),
            LoggedSet(185, 51 * Scale, Some(2 * Scale)),
            LoggedSet(0, 8 * Scale, None),
            LoggedSet(-50, 8 * Scale, Some(2 * Scale))}}

Requests == RichRequests \cup SmallRequests \cup MalformedRequests \cup MixedRequests

(***************************************************************************)
(* The arguments the library functions are evaluated on                    *)
(***************************************************************************)
FnWeights == {1, 185, 225}

FnReps == Scale..(Scale * MaxFnReps)

FnRirs == 0..(Scale * MaxFnRir)

\* the lookups are evaluated from -1 rep and from RPE 5, in eighths
LookWeight == 100

LookReps == (-Scale)..(Scale * MaxLookReps)

LookRPEs == (5 * Scale)..(Scale * MaxLookRPE)

\* the zone predicates are evaluated on halves of a rep and of a RIR
ZoneReps == {(Scale \div 2) * h : h \in 0..(2 * MaxZoneReps)}

ZoneRirs == {(Scale \div 2) * h : h \in 0..(2 * MaxZoneRir)}

\* the optional argument of clampToZoneReps, in whole reps
TargetRepsArgs == {None} \cup {Some(t) : t \in (-2)..MaxTargetReps}

\* the loads and baselines the rounding is applied to: quarters of a unit,
\* negative ones included
RoundValues == {Rat(q, 4) : q \in (-MaxRoundQuarters)..MaxRoundQuarters}

(***************************************************************************)
(* route.ts: what an invocation leaves behind, and the date of the plan    *)
(***************************************************************************)
\* a variant in which every call raises the default reps of each zone by 10
SharedAfterRaisingDefault(s) ==
  [s EXCEPT !.ZONE_PRESETS =
     [g \in DOMAIN @ |-> [@[g] EXCEPT !.defaultReps = @ + 10]]]

\* a variant in which the handler writes to the shared presets: every call
\* adds one set to each zone
SharedAfterCounting(s) ==
  [s EXCEPT !.ZONE_PRESETS =
     [g \in DOMAIN @ |-> [@[g] EXCEPT !.sets = @ + 1]]]

\* lines 77-262 and the library: the maps and the presets are only read
\* (the keys are sorted in a copy made by Array.from)
SharedAfter(s) == s

\* a variant in which the scan sorts the sets of each exercise in place,
\* here by reversing them
InputAfterReversing(body) ==
  IF body.isNull \/ InvalidPayload(body) THEN body
  ELSE LET pw       == body.previousWorkout[1]
           xs       == pw.exerciseInstances[1]
           Rev(seq) == [k \in DOMAIN seq |-> seq[Len(seq) + 1 - k]]
           ys       == [i \in DOMAIN xs |-> [xs[i] EXCEPT !.sets = Rev(@)]]
       IN  [body EXCEPT !.previousWorkout =
              Some([pw EXCEPT !.exerciseInstances = Some(ys)])]

\* lines 89-102: the sets of the request are iterated, never assigned
InputAfter(body) == body

\* lines 227-228: the UTC day after the day the clock shows
TomorrowOf(now) == now + 1

\* lines 230-236: the planned workout carries tomorrow's date; an error
\* response carries none
Dated(resp, now) ==
  IF resp.newWorkout = None THEN resp
  ELSE [resp EXCEPT !.newWorkout = Some([date |-> TomorrowOf(now)] @@ @[1])]

(***************************************************************************)
(* Simultaneous invocations                                                *)
(***************************************************************************)
Calls == 1..MaxCalls

NoCall ==
  [pc |-> "idle", sent |-> None, request |-> None, at |-> None,
   overlapped |-> FALSE, response |-> None]

\* the bodies sent to the simultaneous invocations: the documented example,
\* the same in kilograms for endurance, two sets of different score in
\* ascending order, sets that cannot be iterated, and a body without
\* previousWorkout
CallRequests ==
  {Body(Some(Workout(Some("HYPERTROPHY"), Some("Upper"),
        Some(<<Exercise("Bench Press", "array",
                        <<LoggedSet(185, 5 * Scale, Some(2 * Scale))>>)>>))),
        Some("lbs"), None),
   Body(Some(Workout(Some("ENDURANCE"), Some("Upper"),
        Some(<<Exercise("Bench Press", "array",
                        <<LoggedSet(185, 5 * Scale, Some(2 * Scale))>>)>>))),
        Some("kg"), None),
   Body(Some(Workout(Some("HYPERTROPHY"), Some("Upper"),
        Some(<<Exercise("Bench Press", "array",
                        <<LoggedSet(185, 5 * Scale, Some(2 * Scale)),
                          LoggedSet(185, 12 * Scale, Some(2 * Scale))>>)>>))),
        Some("lbs"), None),
   Body(Some(Workout(None, None, Some(<<Exercise("Squat", "notIterable", <<>>)>>))),
        None, None),
   Body(None, None, None)}

(***************************************************************************)
(* State machine                                                           *)
(***************************************************************************)
Init ==
  /\ pc = "idle"
  /\ request = None
  /\ analysis = <<>>
  /\ trace = <<>>
  /\ response = None
  /\ fnArgs = None
  /\ fnOut = None
  /\ shared = [RPE_TABLE |-> RPE_TABLE, NSCA_BASE_ROW |-> NSCA_BASE_ROW,
               ZONE_PRESETS |-> ZONE_PRESETS]
  /\ clock = 0
  /\ calls = [p \in Calls |-> NoCall]

\* line 79: await req.json() delivers the parsed body
ReadBody ==
  /\ pc = "idle"
  /\ \E body \in Requests :
       /\ request' = Some(body)
       /\ pc' = "awaiting"
  /\ UNCHANGED <<analysis, trace, response, fnArgs, fnOut, shared, clock, calls>>

\* lines 80-261: the rest of the handler runs to its response
POST ==
  /\ pc = "awaiting"
  /\ LET r == Handle(request[1])
     IN  /\ response' = Some(Dated(r.response, clock))
         /\ analysis' = r.analysis
         /\ trace' = r.trace
  /\ request' = Some(InputAfter(request[1]))
  /\ shared' = SharedAfter(shared)
  /\ pc' = "done"
  /\ UNCHANGED <<fnArgs, fnOut, clock, calls>>

Next == ReadBody \/ POST

Spec == Init /\ [][Next]_vars

\* the library functions applied to one argument triple
Evaluate ==
  /\ fnArgs = None
  /\ \E w \in FnWeights, reps \in FnReps, rir \in FnRirs :
       /\ fnArgs' = Some([weight |-> w, reps |-> reps, rir |-> rir])
       /\ fnOut' = Some([performance |-> e1rmPerformance(w, reps, rir),
                         perceived |-> e1rmPerceived(w, reps, rir)])
  /\ UNCHANGED <<pc, request, analysis, trace, response, shared, clock, calls>>

NextFn == Evaluate

SpecFn == Init /\ [][NextFn]_vars

\* the two lookups applied to one pair (reps, RPE): the table lookup, and the
\* base-row lookup inside e1rmPerceived called with RIR = 10 - RPE
Lookup ==
  /\ fnArgs = None
  /\ \E reps \in LookReps, rpe \in LookRPEs :
       /\ fnArgs' = Some([reps |-> reps, rpe |-> rpe])
       /\ fnOut' = Some([percent |-> getPercentFromRPETable(reps, rpe),
                         perceived |-> e1rmPerceived(LookWeight, reps,
                                                     10 * Scale - rpe)])
  /\ UNCHANGED <<pc, request, analysis, trace, response, shared, clock, calls>>

NextLookup == Lookup

SpecLookup == Init /\ [][NextLookup]_vars

\* the zone predicates applied to one (reps, RIR, zone)
Classify ==
  /\ fnArgs = None
  /\ \E reps \in ZoneReps, rir \in ZoneRirs, zone \in GoalNames :
       /\ fnArgs' = Some([fn |-> "classify", reps |-> reps, rir |-> rir, zone |-> zone])
       /\ fnOut' = Some([inTopOfRange |-> isInTopOfRange(reps, rir, zone),
                         belowRange |-> isBelowRange(reps, rir, zone)])
  /\ UNCHANGED <<pc, request, analysis, trace, response, shared, clock, calls>>

\* clampToZoneReps applied to one (zone, targetReps)
Clamp ==
  /\ fnArgs = None
  /\ \E zone \in GoalNames, targetReps \in TargetRepsArgs :
       /\ fnArgs' = Some([fn |-> "clamp", zone |-> zone, targetReps |-> targetReps])
       /\ fnOut' = Some([reps |-> clampToZoneReps(zone, targetReps)])
  /\ UNCHANGED <<pc, request, analysis, trace, response, shared, clock, calls>>

NextZone == Classify \/ Clamp

SpecZone == Init /\ [][NextZone]_vars

(***************************************************************************)
(* The roundings of a load to the increment                                *)
(***************************************************************************)
\* loadFromBaselineUsingPercent applied to one (baseline, reps, RIR)
RoundLoad ==
  /\ fnArgs = None
  /\ \E baseline \in RoundValues, reps \in {Scale, 8 * Scale},
        rir \in {0, 2 * Scale} :
       /\ fnArgs' = Some([fn |-> "load", baseline |-> baseline,
                          reps |-> reps, rir |-> rir])
       /\ fnOut' = Some([load |-> loadFromBaselineUsingPercent(
                                    baseline, reps, rir, roundIncrement)])
  /\ UNCHANGED <<pc, request, analysis, trace, response, shared, clock, calls>>

\* roundToNearest25lbs applied to one planned weight taken to pounds
RoundLbs ==
  /\ fnArgs = None
  /\ \E value \in RoundValues, unit \in {"lbs", "kg"} :
       /\ fnArgs' = Some([fn |-> "lbs", value |-> value, unit |-> unit])
       /\ fnOut' = Some([lbs |-> roundToNearest25lbs(toLbs(value, unit))])
  /\ UNCHANGED <<pc, request, analysis, trace, response, shared, clock, calls>>

NextRound == RoundLoad \/ RoundLbs

SpecRound == Init /\ [][NextRound]_vars

\* line 79 of invocation p: await req.json() delivers the parsed body; the
\* invocation is suspended here and others may run
Receive(p) ==
  /\ calls[p].pc = "idle"
  /\ \E body \in CallRequests :
       calls' = [calls EXCEPT ![p] =
                   [@ EXCEPT !.pc = "awaiting", !.sent = Some(body),
                             !.request = Some(body)]]
  /\ UNCHANGED <<pc, request, analysis, trace, response, fnArgs, fnOut,
                 shared, clock>>

\* lines 80-261 of invocation p: the rest of the handler runs without
\* suspension; overlapped records that another invocation was suspended at
\* its await meanwhile
Respond(p) ==
  /\ calls[p].pc = "awaiting"
  /\ calls' = [calls EXCEPT ![p] =
                 [@ EXCEPT !.pc = "done",
                           !.request = Some(InputAfter(@[1])),
                           !.at = Some(clock),
                           !.overlapped =
                             \E q \in Calls \ {p} : calls[q].pc = "awaiting",
                           !.response =
                             Some(Dated(Handle(calls[p].request[1]).response,
                                        clock))]]
  /\ shared' = SharedAfter(shared)
  /\ UNCHANGED <<pc, request, analysis, trace, response, fnArgs, fnOut, clock>>

\* the system clock passes midnight UTC
Tick ==
  /\ clock < MaxDay
  /\ clock' = clock + 1
  /\ UNCHANGED <<pc, request, analysis, trace, response, fnArgs, fnOut,
                 shared, calls>>

NextCalls == (\E p \in Calls : Receive(p) \/ Respond(p)) \/ Tick

SpecCalls == Init /\ [][NextCalls]_vars

(***************************************************************************)
(* Properties of the handler                                               *)
(***************************************************************************)
Answered == pc = "done"

Succeeded == pc = "done" /\ response[1].status = 200

SessionGoal == response[1].newWorkout[1].goal

SessionUnit == IF request[1].weightUnit = None THEN "lbs" ELSE request[1].weightUnit[1]

Recommended == response[1].newWorkout[1].exerciseInstances

HasTopSet(i) == analysis[i].topSet # None

TwoAndAHalf == Rat(5, 2)

\* the percentage of the RPE table for the zone's default reps at RPE 8
ZonePercent(goal) ==
  CASE goal = "STRENGTH"    -> Rat(864, 10)
    [] goal = "HYPERTROPHY" -> Rat(739, 10)
    [] goal = "ENDURANCE"   -> Rat(626, 10)

AdjustmentAsClaimed(loc) ==
  IF loc.inTopOfRange THEN RAdd(loc.baseLoad, TwoAndAHalf)
  ELSE IF loc.belowRange
       THEN MathMax(TwoAndAHalf, RSub(loc.baseLoad, TwoAndAHalf))
       ELSE loc.baseLoad

\* the adjustment with the floor in both branches
AdjustmentFloored(loc) ==
  IF loc.inTopOfRange
  THEN MathMax(TwoAndAHalf, RAdd(loc.baseLoad, TwoAndAHalf))
  ELSE IF loc.belowRange
       THEN MathMax(TwoAndAHalf, RSub(loc.baseLoad, TwoAndAHalf))
       ELSE loc.baseLoad

\* C2 as stated: top-of-range adds one increment (no floor), else below-range
\* subtracts one increment floored at one increment, else no change
C2_AsStated ==
  Succeeded =>
    \A i \in DOMAIN trace :
      trace[i] # None => trace[i][1].plannedWeight = AdjustmentAsClaimed(trace[i][1])

\* C2 amended: exactly one adjustment is applied, top-of-range first: add one
\* increment, or else (below range) subtract one increment, and in both
\* branches the result is floored at one increment; else the load is unchanged
C2_OneAdjustmentFloored ==
  Succeeded =>
    \A i \in DOMAIN trace :
      trace[i] # None => trace[i][1].plannedWeight = AdjustmentFloored(trace[i][1])

\* a top-of-range set whose base load is negative, so that the floor acts,
\* in a run that also shows a below-range floor
C2_Witness ==
  /\ Succeeded
  /\ \E i \in DOMAIN trace :
       /\ trace[i] # None
       /\ trace[i][1].inTopOfRange
       /\ RLess(trace[i][1].baseLoad, IntNum(0))
       /\ trace[i][1].plannedWeight = TwoAndAHalf

\* C3: every set emitted in a prescription has a weight strictly above 0
C3_PositiveWeights ==
  Succeeded =>
    \A i \in DOMAIN Recommended :
      \A k \in DOMAIN Recommended[i].recommended.sets :
        LET w == Recommended[i].recommended.sets[k].weight
        IN  w # None /\ w[1].n > 0

\* value * 2.2046226218 lies in [steps - 1/2, steps + 1/2) for value = k * 2.5
NearestStepTimesFactor(value, steps) ==
  LET k == RDiv(value, TwoAndAHalf)
  IN  /\ k.d = 1
      /\ \/ ~LeqTimesFactor(2 * k.n, 2 * steps - 1)
         \/ TimesFactor(2 * k.n) = <<10 * (2 * steps - 1), 0>>
      /\ LeqTimesFactor(2 * k.n, 2 * steps + 1)
      /\ TimesFactor(2 * k.n) # <<10 * (2 * steps + 1), 0>>

\* the final weight, taken in pounds, is the multiple of 2.5 lb nearest to the
\* adjusted load taken in pounds
RoundedInPounds(loc, unit) ==
  LET steps == RDiv(loc.finalWeight.v, TwoAndAHalf)
  IN  /\ loc.finalWeight.f = (IF unit = "kg" THEN -1 ELSE 0)
      /\ IsFinite(steps)
      /\ steps.d = 1
      /\ IF unit = "kg"
         THEN NearestStepTimesFactor(loc.plannedWeight, steps.n)
         ELSE steps = MathRound(RDiv(loc.plannedWeight, TwoAndAHalf))

Instances == request[1].previousWorkout[1].exerciseInstances[1]

\* the sets the scan iterates over: ex.sets || []
IteratedSets(ex) == IF ex.setsKind = "array" THEN ex.sets ELSE <<>>

RirOrDefault(s) == IF s.rir = None THEN 2 * Scale ELSE s.rir[1]

ScoreOf(s) == e1rmPerformance(s.weight, s.reps, RirOrDefault(s))

\* C5: the top set of an exercise is the logged set of maximum performance
\* score, a missing RIR counting as 2, and among sets of equal maximum score
\* the first in input order (for an exercise with a set of positive score)
C5_TopSetIsFirstMaximum ==
  Succeeded =>
    \A i \in DOMAIN analysis :
      LET sets == IteratedSets(Instances[i])
      IN  (\E j \in DOMAIN sets : RGreater(ScoreOf(sets[j]), IntNum(0))) =>
            \E j \in DOMAIN sets :
              /\ \A k \in DOMAIN sets : ~RLess(ScoreOf(sets[j]), ScoreOf(sets[k]))
              /\ \A k \in 1..(j - 1) : RLess(ScoreOf(sets[k]), ScoreOf(sets[j]))
              /\ analysis[i].topSet =
                   Some([weight |-> sets[j].weight, reps |-> sets[j].reps,
                         rir |-> RirOrDefault(sets[j]),
                         rpe |-> 10 * Scale - RirOrDefault(sets[j])])

\* two different sets of equal maximum score, the first of which is selected
C5_Witness ==
  /\ Succeeded
  /\ \E i \in DOMAIN analysis :
       LET sets == IteratedSets(Instances[i])
       IN  /\ Len(sets) = 2
           /\ ScoreOf(sets[1]) = ScoreOf(sets[2])
           /\ sets[1].reps # sets[2].reps
           /\ HasTopSet(i)
           /\ analysis[i].topSet[1].reps = sets[1].reps

RemoveAt(seq, i) == [k \in 1..(Len(seq) - 1) |-> IF k < i THEN seq[k] ELSE seq[k + 1]]

WithoutExercise(body, i) ==
  [body EXCEPT !.previousWorkout =
     Some([@[1] EXCEPT !.exerciseInstances = Some(RemoveAt(@[1], i))])]

NoLoggedSets(ex) == ~ex.isNull /\ ex.setsKind # "notIterable" /\ IteratedSets(ex) = <<>>

\* the request is well formed: an object with an array of exercises, each an
\* object whose sets are a list or absent, and a goal that is a preset or absent
WellFormed(body) ==
  /\ ~body.isNull
  /\ body.previousWorkout # None
  /\ body.previousWorkout[1].exerciseInstances # None
  /\ body.previousWorkout[1].goal \in {None} \cup {Some(g) : g \in GoalNames}
  /\ \A i \in DOMAIN body.previousWorkout[1].exerciseInstances[1] :
       LET ex == body.previousWorkout[1].exerciseInstances[1][i]
       IN  ~ex.isNull /\ ex.setsKind # "notIterable"

\* C6: an exercise with no logged sets yields a null top set, zero estimates
\* and no recommended sets; the response is a success with one entry per
\* input exercise in input order, and the other entries are those of the
\* request without the empty exercise
C6_EmptyExerciseIsNotFatal ==
  (Answered /\ WellFormed(request[1])) =>
    /\ response[1].status = 200
    /\ Len(Recommended) = Len(Instances)
    /\ Len(response[1].details[1].exercises) = Len(Instances)
    /\ \A i \in DOMAIN Instances :
         /\ Recommended[i].name = Instances[i].name
         /\ response[1].details[1].exercises[i].name = Instances[i].name
         /\ (Recommended[i].recommended.sets = <<>>) = ~HasTopSet(i)
         /\ NoLoggedSets(Instances[i]) =>
              /\ analysis[i].topSet = None
              /\ analysis[i].estimated1RM = IntNum(0)
              /\ analysis[i].perceived1RM = IntNum(0)
              /\ Recommended[i].estimated1RM = Some(IntNum(0))
              /\ Recommended[i].perceived1RM = Some(IntNum(0))
              /\ Recommended[i].recommended.sets = <<>>
              /\ RemoveAt(Recommended, i) =
                   Handle(WithoutExercise(request[1], i)).response.newWorkout[1].exerciseInstances

\* an empty exercise ahead of an exercise that receives a prescription
C6_Witness ==
  /\ Succeeded
  /\ Len(Instances) = 2
  /\ NoLoggedSets(Instances[1])
  /\ Instances[1].name # Instances[2].name
  /\ Recommended[2].recommended.sets # <<>>

Faults(body) ==
  /\ ~body.isNull
  /\ body.previousWorkout # None
  /\ body.previousWorkout[1].exerciseInstances # None
  /\ LET pw == body.previousWorkout[1]
         xs == pw.exerciseInstances[1]
     IN  \/ \E i \in DOMAIN xs : xs[i].isNull \/ xs[i].setsKind = "notIterable"
         \/ /\ pw.goal \notin {None} \cup {Some(g) : g \in GoalNames}
            /\ Len(xs) > 0

\* C8: a fault after validation is answered 500 'Unexpected error' with no
\* per-exercise results, and no response combines an error with results
C8_FaultIsGenericFailure ==
  Answered =>
    /\ Faults(request[1]) =>
         /\ response[1].status = 500
         /\ response[1].error = Some("Unexpected error")
         /\ response[1].newWorkout = None
         /\ response[1].details = None
    /\ response[1].error # None =>
         (response[1].newWorkout = None /\ response[1].details = None)
    /\ response[1].error = None <=> response[1].status = 200
    /\ response[1].status = 500 =>
         (Faults(request[1]) \/ request[1].isNull)

\* the fault comes after an exercise that was analysed without fault
C8_Witness ==
  /\ Answered
  /\ Faults(request[1])
  /\ Len(Instances) = 2
  /\ IteratedSets(Instances[1]) # <<>>
  /\ ~Instances[1].isNull
  /\ Instances[2].setsKind = "notIterable"
  /\ response[1].status = 500

\* the goal as the claim resolves it: explicit argument, else the session's
\* declared goal, else HYPERTROPHY
ClaimedGoal ==
  IF request[1].goal # None THEN request[1].goal[1]
  ELSE IF request[1].previousWorkout[1].goal # None
       THEN request[1].previousWorkout[1].goal[1]
       ELSE "HYPERTROPHY"

DeclaredGoal ==
  IF request[1].previousWorkout[1].goal # None
  THEN request[1].previousWorkout[1].goal[1]
  ELSE "HYPERTROPHY"

\* C9 as stated: the planned workout echoes the explicit goal argument if
\* given, else the previous session's goal, else HYPERTROPHY
C9_AsStated == Succeeded => SessionGoal = ClaimedGoal

\* C9 amended: the goal is the one declared in the previous session, else
\* HYPERTROPHY (a goal given beside previousWorkout is not read); it is
\* echoed in the planned workout and applied to every exercise
C9_GoalFromPreviousSession ==
  Succeeded =>
    /\ SessionGoal = DeclaredGoal
    /\ Len(Instances) > 0 =>
         /\ SessionGoal \in GoalNames
         /\ \A i \in DOMAIN Recommended :
              LET rec  == Recommended[i].recommended
                  zone == ZONE_PRESETS[SessionGoal]
              IN  /\ rec.targetPercentRange = <<zone.low, zone.high>>
                  /\ rec.targetReps = zone.defaultReps
                  /\ \A k \in DOMAIN rec.sets :
                       /\ rec.sets[k].notes.zone = SessionGoal
                       /\ rec.sets[k].reps = zone.defaultReps
                       /\ rec.sets[k].targetRPE = 10 - zone.targetRIR

\* a goal is given beside previousWorkout, the session declares another, and
\* two exercises receive the session's
C9_Witness ==
  /\ Succeeded
  /\ request[1].goal = Some("STRENGTH")
  /\ SessionGoal = "ENDURANCE"
  /\ Len(Instances) = 2
  /\ \A i \in DOMAIN Recommended : Recommended[i].recommended.sets # <<>>

\* C16: for every exercise with a selected top set the prescription has
\* exactly zone.sets sets, numbered 1, 2, ... in order, all with the same
\* final rounded weight, the zone's default reps and the target effort
\* RPE = 10 - zone.targetRIR
C16_IdenticalSetsPerZone ==
  Succeeded =>
    \A i \in DOMAIN analysis :
      HasTopSet(i) =>
        LET zone == ZONE_PRESETS[SessionGoal]
            sets == Recommended[i].recommended.sets
        IN  /\ trace[i] # None
            /\ DOMAIN sets = 1..zone.sets
            /\ Len(sets) = 3
            /\ \A k \in DOMAIN sets :
                 /\ sets[k].setIndex = k
                 /\ sets[k].weight = JsonNum(ToFixedConv(trace[i][1].finalWeight, 100))
                 /\ sets[k].weight = sets[1].weight
                 /\ sets[k].reps = zone.defaultReps
                 /\ sets[k].targetRPE = 10 - zone.targetRIR
                 /\ sets[k].targetRPE = 8

\* a strength session in kilograms with two prescriptions of three sets of
\* 3 reps at a finite weight
C16_Witness ==
  /\ Succeeded
  /\ SessionGoal = "STRENGTH"
  /\ SessionUnit = "kg"
  /\ Len(Recommended) = 2
  /\ \A i \in DOMAIN Recommended :
       /\ HasTopSet(i)
       /\ Len(Recommended[i].recommended.sets) = 3
       /\ Recommended[i].recommended.sets[3].setIndex = 3
       /\ Recommended[i].recommended.sets[3].reps = 3
       /\ Recommended[i].recommended.sets[3].weight # None

\* the request of the API example of REFACTORING_SUMMARY.md
DocumentedRequest ==
  Body(Some(Workout(Some("HYPERTROPHY"), Some("Upper"),
       Some(<<Exercise("Bench Press", "array",
                       <<LoggedSet(185, 5 * Scale, Some(2 * Scale))>>)>>))),
       Some("lbs"), None)

DocumentedAnswered == Succeeded /\ request[1] = DocumentedRequest

\* the estimates and targets the example reports, with every set at weight w
DocumentedResponse(w) ==
  LET ex == Recommended[1]
  IN  /\ Len(Recommended) = 1
      /\ ex.name = "Bench Press"
      /\ ex.estimated1RM = Some(Rat(22817, 100))
      /\ ex.perceived1RM = Some(Rat(21971, 100))
      /\ ex.recommended.targetReps = 8
      /\ ex.recommended.sets # <<>>
      /\ \A k \in DOMAIN ex.recommended.sets :
           /\ ex.recommended.sets[k].reps = 8
           /\ ex.recommended.sets[k].targetRPE = 10 - 2
           /\ ex.recommended.sets[k].weight = Some(IntNum(w))

PresetIs(goal, low, high, rir, sets) ==
  LET zone == shared.ZONE_PRESETS[goal]
  IN  zone.low = low /\ zone.high = high /\ zone.targetRIR = rir /\ zone.sets = sets

\* every prescription of the session with a top set has n sets
PrescribesSets(n) ==
  \A i \in DOMAIN analysis :
    HasTopSet(i) => Len(Recommended[i].recommended.sets) = n

Details == response[1].details[1].exercises

\* C22 as stated: for every exercise with a top set the trace entry holds
\* the selected set, both estimates, the chosen baseline, the two
\* classification flags and the target percentage used for the load (seven
\* items beside the name)
C22_AsStated ==
  Succeeded =>
    \A i \in DOMAIN analysis :
      HasTopSet(i) =>
        /\ Cardinality(DOMAIN Details[i] \ {"name"}) >= 7
        /\ Details[i].rpeChartPercent = ZonePercent(SessionGoal)

\* C22 amended: the trace entry holds exactly the name, the selected set
\* (weight, reps, RIR, RPE), the two estimates (the perceived one being the
\* baseline) and the chart percentage of the selected set's own reps and
\* RPE; it holds no classification flag and not the target percentage, and
\* the prescription beside it holds neither
C22_TraceHoldsSetAndEstimates ==
  Succeeded =>
    \A i \in DOMAIN analysis :
      HasTopSet(i) =>
        LET top == analysis[i].topSet[1]
        IN  /\ DOMAIN Details[i] =
                 {"name", "topSet", "perceived1RM", "estimated1RM", "rpeChartPercent"}
            /\ Details[i].topSet = top
            /\ Details[i].estimated1RM =
                 JsonNum(e1rmPerformance(top.weight, top.reps, top.rir))
            /\ Details[i].perceived1RM = JsonNum(analysis[i].currentBaseline[1])
            /\ Details[i].rpeChartPercent = getPercentFromRPETable(top.reps, top.rpe)
            /\ DOMAIN Recommended[i] =
                 {"name", "perceived1RM", "estimated1RM", "topSetRPE", "recommended"}
            /\ DOMAIN Recommended[i].recommended =
                 {"targetPercentRange", "targetReps", "sets"}
            /\ \A k \in DOMAIN Recommended[i].recommended.sets :
                 DOMAIN Recommended[i].recommended.sets[k] =
                   {"setIndex", "weight", "reps", "targetRPE", "percentOf1RM", "notes"}

\* a below-range top set whose chart percentage is not the target percentage
C22_Witness ==
  /\ Succeeded
  /\ \E i \in DOMAIN analysis :
       /\ HasTopSet(i)
       /\ trace[i][1].belowRange
       /\ Details[i].rpeChartPercent # ZonePercent(SessionGoal)
       /\ Details[i].perceived1RM # Details[i].estimated1RM

\* C24: in every reachable state every zone preset has low <= defaultReps
\* <= high, so clampToZoneReps(goal, zone.defaultReps) is zone.defaultReps,
\* and that is the target reps of every prescription
C24_DefaultRepsWithinZone ==
  /\ \A g \in GoalNames :
       LET zone == shared.ZONE_PRESETS[g]
       IN  /\ zone.low <= zone.defaultReps
           /\ zone.defaultReps <= zone.high
           /\ clampToZoneReps(g, Some(zone.defaultReps)) = zone.defaultReps
  /\ Succeeded =>
       \A i \in DOMAIN trace :
         trace[i] # None =>
           /\ trace[i][1].targetReps = shared.ZONE_PRESETS[SessionGoal].defaultReps
           /\ Recommended[i].recommended.targetReps = trace[i][1].targetReps
           /\ Recommended[i].recommended.targetReps \in {3, 8, 15}

\* an endurance session has been planned, at 15 reps
C24_Witness ==
  /\ Succeeded
  /\ SessionGoal = "ENDURANCE"
  /\ Len(trace) = 1
  /\ trace[1] # None
  /\ trace[1][1].targetReps = 15
  /\ shared.ZONE_PRESETS.ENDURANCE.defaultReps = 15

\* the top set of exercise i has a positive weight and a decayed percentage
\* of 0 or less: its perceived 1RM is infinite or negative
Decayed(i) ==
  /\ HasTopSet(i)
  /\ analysis[i].topSet[1].weight > 0
  /\ \/ analysis[i].perceived1RM = Infinity
     \/ (IsFinite(analysis[i].perceived1RM) /\ analysis[i].perceived1RM.n < 0)

\* the request with the sets of exercise i replaced by one ordinary set
WithOrdinarySets(body, i) ==
  [body EXCEPT !.previousWorkout[1].exerciseInstances[1][i].sets =
     <<LoggedSet(185, 5 * Scale, Some(2 * Scale))>>]

\* C25 as stated: a decayed percentage of 0 or less still gives numbers
C25_AsStated ==
  Answered =>
    \A i \in DOMAIN analysis :
      Decayed(i) =>
        /\ Succeeded
        /\ Recommended[i].perceived1RM # None
        /\ \A k \in DOMAIN Recommended[i].recommended.sets :
             Recommended[i].recommended.sets[k].weight # None

\* C25: a decayed percentage of 0 or less is not guarded: the request
\* succeeds as it does with an ordinary set in that place, the exercise gets
\* its full prescription and the other exercises get what they would get
\* beside an ordinary set; a negative percentage gives a negative perceived
\* 1RM and numeric loads, a percentage of exactly 0 an infinite estimate
\* that is written as null, with null loads and null percentages
C25_DecayedPercentNotGuarded ==
  Answered =>
    \A i \in DOMAIN analysis :
      Decayed(i) =>
        LET ordinary == Handle(WithOrdinarySets(request[1], i)).response
            sets     == Recommended[i].recommended.sets
        IN  /\ Succeeded
            /\ ordinary.status = 200
            /\ trace[i] # None
            /\ Len(sets) = shared.ZONE_PRESETS[SessionGoal].sets
            /\ \A j \in DOMAIN analysis \ {i} :
                 /\ Recommended[j] = ordinary.newWorkout[1].exerciseInstances[j]
                 /\ Details[j] = ordinary.details[1].exercises[j]
            /\ IF analysis[i].perceived1RM = Infinity
               THEN /\ Recommended[i].perceived1RM = None
                    /\ Details[i].perceived1RM = None
                    /\ \A k \in DOMAIN sets :
                         sets[k].weight = None /\ sets[k].percentOf1RM = None
               ELSE /\ Recommended[i].perceived1RM # None
                    /\ Recommended[i].perceived1RM[1].n < 0
                    /\ \A k \in DOMAIN sets :
                         sets[k].weight # None /\ sets[k].percentOf1RM # None

\* 185 x 51 at RIR 0 beside an ordinary exercise: the first is planned with
\* null loads, the second with its three loads
C25_Witness ==
  /\ Succeeded
  /\ Len(analysis) = 2
  /\ Decayed(1)
  /\ analysis[1].topSet[1].reps = 51 * Scale
  /\ analysis[1].perceived1RM = Infinity
  /\ Len(Recommended[1].recommended.sets) = 3
  /\ Recommended[1].recommended.sets[1].weight = None
  /\ ~Decayed(2)
  /\ Len(Recommended[2].recommended.sets) = 3
  /\ Recommended[2].recommended.sets[1].weight # None

\* the value the Calculation Details panel derives for exercise i:
\* topSet.weight / (rpeChartPercent / 100)
PanelPerceived(i) ==
  RDiv(IntNum(Details[i].topSet.weight),
       RDiv(Details[i].rpeChartPercent, IntNum(100)))

\* exercise i has a top set of positive weight and 2 to 12 reps
ChartedTopSet(i) ==
  /\ HasTopSet(i)
  /\ analysis[i].topSet[1].weight > 0
  /\ analysis[i].topSet[1].reps >= 2 * Scale
  /\ analysis[i].topSet[1].reps <= 12 * Scale

LoggedSets(i) == IteratedSets(Instances[i])

\* the performance score of the set is not greater than 0
Scoreless(s) == ~RGreater(ScoreOf(s), IntNum(0))

\* the request with the sets of exercise i removed
WithoutSets(body, i) ==
  [body EXCEPT !.previousWorkout[1].exerciseInstances[1][i].sets = <<>>]

\* C30: a logged set whose performance score is not greater than 0 (a
\* weight of 0 or less) is never the top set; an exercise that has sets and
\* only such sets gets what it would get with no sets: no top set, zero
\* estimates and an empty prescription; a selected top set has a positive
\* score
C30_TopSetScoresPositive ==
  Succeeded =>
    \A i \in DOMAIN analysis :
      LET without == Handle(WithoutSets(request[1], i))
      IN  /\ HasTopSet(i) =>
               /\ \E k \in DOMAIN LoggedSets(i) :
                    /\ ~Scoreless(LoggedSets(i)[k])
                    /\ analysis[i].topSet[1].weight = LoggedSets(i)[k].weight
                    /\ analysis[i].topSet[1].reps = LoggedSets(i)[k].reps
               /\ RGreater(analysis[i].estimated1RM, IntNum(0))
               /\ analysis[i].topSet[1].weight > 0
          /\ (\A k \in DOMAIN LoggedSets(i) : Scoreless(LoggedSets(i)[k])) =>
               /\ ~HasTopSet(i)
               /\ analysis[i] = without.analysis[i]
               /\ analysis[i].estimated1RM = IntNum(0)
               /\ analysis[i].perceived1RM = IntNum(0)
               /\ Recommended[i] = without.response.newWorkout[1].exerciseInstances[i]
               /\ Recommended[i].recommended.sets = <<>>
               /\ Details[i] = without.response.details[1].exercises[i]

\* an exercise whose only set weighs -50 has been answered beside an
\* ordinary one: the first has no top set and no prescription, the second
\* has both
C30_Witness ==
  /\ Succeeded
  /\ Len(analysis) = 2
  /\ Len(LoggedSets(1)) = 1
  /\ LoggedSets(1)[1].weight = -50
  /\ Scoreless(LoggedSets(1)[1])
  /\ ~HasTopSet(1)
  /\ Recommended[1].recommended.sets = <<>>
  /\ HasTopSet(2)
  /\ Recommended[2].recommended.sets # <<>>

(***************************************************************************)
(* Properties of simultaneous and repeated invocations (SpecCalls)         *)
(***************************************************************************)
Done(p) == calls[p].pc = "done"

\* the response without the date of the planned workout
Undated(resp) ==
  IF resp.newWorkout = None THEN resp
  ELSE [resp EXCEPT !.newWorkout =
          Some([f \in DOMAIN @[1] \ {"date"} |-> @[1][f]])]

DateOf(resp) == resp.newWorkout[1].date

\* C17 as stated: two invocations with identical input give identical
\* output, the date of the planned workout included
C17_AsStated ==
  \A p, q \in Calls :
    (Done(p) /\ Done(q) /\ calls[p].sent = calls[q].sent) =>
      calls[p].response = calls[q].response

\* C17 amended: two invocations with identical input give the same output
\* apart from the date; the date is the day after the day of the call, so
\* the whole outputs are identical exactly when the calls are answered on
\* the same day or plan no workout
C17_IdenticalApartFromDate ==
  \A p, q \in Calls :
    (Done(p) /\ Done(q) /\ calls[p].sent = calls[q].sent) =>
      /\ Undated(calls[p].response[1]) = Undated(calls[q].response[1])
      /\ calls[p].response[1].newWorkout # None =>
           /\ DateOf(calls[p].response[1]) = calls[p].at[1] + 1
           /\ (calls[p].response = calls[q].response) <=> (calls[p].at = calls[q].at)
      /\ calls[p].response[1].newWorkout = None =>
           calls[p].response = calls[q].response

\* the documented request answered on two different days: the plans differ,
\* and only by their dates
C17_Witness ==
  \E p, q \in Calls :
    /\ Done(p) /\ Done(q)
    /\ calls[p].sent = calls[q].sent
    /\ calls[p].response[1].status = 200
    /\ calls[p].response[1].newWorkout[1].exerciseInstances[1].recommended.sets # <<>>
    /\ calls[p].at # calls[q].at
    /\ calls[p].response # calls[q].response
    /\ Undated(calls[p].response[1]) = Undated(calls[q].response[1])

\* the maps and the presets as the module constructs them
Pristine ==
  [RPE_TABLE |-> RPE_TABLE, NSCA_BASE_ROW |-> NSCA_BASE_ROW,
   ZONE_PRESETS |-> ZONE_PRESETS]

\* C18: no invocation changes RPE_TABLE, NSCA_BASE_ROW, ZONE_PRESETS or the
\* sets of its request, and under every interleaving at the awaited body
\* read each invocation's response is the one the handler gives that
\* request, on that day, over the tables as constructed
C18_InvocationsIndependent ==
  /\ shared = Pristine
  /\ \A p \in Calls :
       /\ calls[p].request = calls[p].sent
       /\ Done(p) =>
            calls[p].response =
              Some(Dated(Handle(calls[p].sent[1]).response, calls[p].at[1]))

\* an invocation that ran while another was suspended at its await with a
\* different request, both of them answered with a plan
C18_Witness ==
  \E p, q \in Calls :
    /\ Done(p) /\ Done(q)
    /\ calls[p].overlapped
    /\ calls[p].sent # calls[q].sent
    /\ calls[p].response[1].status = 200
    /\ calls[q].response[1].status = 200
    /\ Len(calls[p].sent[1].previousWorkout[1].exerciseInstances[1][1].sets) = 2
    /\ calls[q].response[1].newWorkout[1].exerciseInstances[1].recommended.sets # <<>>

(***************************************************************************)
(* Properties of the library functions                                     *)
(* (C10 is stated under SpecFn, C11-C13 and C20 under SpecLookup, C14 and   *)
(* C15 under SpecZone)                                                     *)
(***************************************************************************)
Evaluated == fnArgs # None

\* the keys of the base row nearest to clamp(10 - RIR, 6.5, 10)
NearestKeys(rir) ==
  LET c == ClampRPE(10 * Scale - rir)
  IN  {k \in RPEKeys : \A k2 \in RPEKeys : Abs(c - k) <= Abs(c - k2)}

\* C10: e1rmPerceived is weight / (basePercent - 2.0 * max(0, reps - 1)) * 100
\* with basePercent the base-row entry of a key nearest to the clamped RPE;
\* 185 x 5 at RIR 2 uses 84.2 and gives 219.71, e1rmPerformance gives 228.17
C10_PerceivedFormula ==
  Evaluated =>
    LET a      == fnArgs[1]
        extraQ == IF a.reps > Scale THEN a.reps - Scale ELSE 0
    IN  /\ \E k \in NearestKeys(a.rir) :
             fnOut[1].perceived =
               Rat(a.weight * 1000 * Scale, Scale * NSCA_BASE_ROW[k] - 20 * extraQ)
        /\ (a.weight = 185 /\ a.reps = 5 * Scale /\ a.rir = 2 * Scale) =>
             /\ fnOut[1].perceived = Rat(185000, 842)
             /\ ToFixed(fnOut[1].perceived, 100) = Rat(21971, 100)
             /\ ToFixed(fnOut[1].performance, 100) = Rat(22817, 100)

\* C23: for a positive weight e1rmPerformance is weight x (1 + (reps + RIR)
\* / 30) with no clamping, so it does not decrease when reps or RIR grow (by
\* the smallest step, and up to the largest reps and RIR); for 1 rep at
\* RIR 0 it is weight x 31/30, not weight
C23_PerformanceMonotone ==
  Evaluated =>
    LET a   == fnArgs[1]
        out == fnOut[1].performance
    IN  /\ a.weight > 0
        /\ out = Rat(a.weight * (30 * Scale + a.reps + a.rir), 30 * Scale)
        /\ ~RLess(e1rmPerformance(a.weight, a.reps + 1, a.rir), out)
        /\ ~RLess(e1rmPerformance(a.weight, a.reps, a.rir + 1), out)
        /\ ~RLess(e1rmPerformance(a.weight, Scale * MaxFnReps, a.rir), out)
        /\ ~RLess(e1rmPerformance(a.weight, a.reps, Scale * MaxFnRir), out)
        /\ ~RLess(out, e1rmPerformance(a.weight, Scale, a.rir))
        /\ ~RLess(out, e1rmPerformance(a.weight, a.reps, 0))
        /\ (a.reps = Scale /\ a.rir = 0) =>
             (out = Rat(31 * a.weight, 30) /\ out # IntNum(a.weight))

\* 185 x 1 rep at RIR 0 has been evaluated and gives 185 x 31/30
C23_Witness ==
  /\ Evaluated
  /\ fnArgs[1] = [weight |-> 185, reps |-> Scale, rir |-> 0]
  /\ fnOut[1].performance = Rat(185 * 31, 30)

\* the documented set has been evaluated
C10_Witness ==
  /\ Evaluated
  /\ fnArgs[1] = [weight |-> 185, reps |-> 5 * Scale, rir |-> 2 * Scale]
  /\ ToFixed(fnOut[1].perceived, 100) = Rat(21971, 100)

\* the pair looked up is a cell of the table: whole reps 1..12 and a key RPE
NativeCell(a) ==
  /\ a.reps % Scale = 0
  /\ (a.reps \div Scale) \in 1..12
  /\ a.rpe \in RPEKeys

\* the cells printed by Test Case 3 of the test script: reps, RPE, percent
TestCase3 ==
  {<<1, 10 * Scale, Rat(100, 1)>>, <<1, 19 * (Scale \div 2), Rat(978, 10)>>,
   <<5, 10 * Scale, Rat(863, 10)>>, <<8, 8 * Scale, Rat(739, 10)>>,
   <<12, 7 * Scale, Rat(599, 10)>>}

\* C11: for whole reps 1..12 and an RPE among 6.5, 7, ..., 10 the lookup
\* returns exactly the percentage stored in that cell of RPE_TABLE, and the
\* five cells the test script prints have the values it expects
C11_NativeCellIsStoredPercent ==
  fnArgs # None =>
    LET a == fnArgs[1]
    IN  NativeCell(a) =>
          /\ fnOut[1].percent = Rat(RPE_TABLE[a.reps \div Scale][a.rpe], Tenth)
          /\ \A t \in TestCase3 :
               (a.reps = Scale * t[1] /\ a.rpe = t[2]) => fnOut[1].percent = t[3]

\* the cell 8 reps at RPE 8 has been looked up and gives 73.9
C11_Witness ==
  /\ fnArgs # None
  /\ fnArgs[1] = [reps |-> 8 * Scale, rpe |-> 8 * Scale]
  /\ NativeCell(fnArgs[1])
  /\ fnOut[1].percent = Rat(739, 10)

\* the integer n with n - 1/2 <= reps < n + 1/2, reps in units of 1/Scale
NearestWholeReps(reps) ==
  CHOOSE n \in (-2)..(MaxLookReps + 1) :
    2 * Scale * n - Scale <= 2 * reps /\ 2 * reps < 2 * Scale * n + Scale

\* the row of the table the claim assigns to reps: rounded, then within 1..12
RowOfReps(reps) ==
  LET n == NearestWholeReps(reps)
  IN  IF n < 1 THEN 1 ELSE IF n > 12 THEN 12 ELSE n

\* weight / (basePercent - 2.0 * max(0, reps - 1)) * 100, basePercent in tenths
PerceivedFromBase(weight, reps, baseTenths) ==
  LET extra == IF reps > Scale THEN reps - Scale ELSE 0
  IN  Rat(weight * 1000 * Scale, Scale * baseTenths - 20 * extra)

\* C12: an RPE above 10 is looked up as RPE 10 and an RPE below 6.5 as RPE 6.5,
\* in the table and in the base row of e1rmPerceived alike; the table lookup
\* rounds reps to the nearest integer and clamps it to 1..12, so reps below 1
\* read row 1 and reps above 12 read row 12
C12_LookupsClampInputs ==
  fnArgs # None =>
    LET a   == fnArgs[1]
        row == RowOfReps(a.reps)
    IN  /\ fnOut[1].percent = getPercentFromRPETable(Scale * row, a.rpe)
        /\ \E k \in RPEKeys : fnOut[1].percent = Rat(RPE_TABLE[row][k], Tenth)
        /\ a.reps < Scale \div 2 => row = 1
        /\ a.reps >= 12 * Scale => row = 12
        /\ a.rpe > 10 * Scale =>
             /\ fnOut[1].percent = getPercentFromRPETable(a.reps, 10 * Scale)
             /\ fnOut[1].percent = Rat(RPE_TABLE[row][10 * Scale], Tenth)
             /\ fnOut[1].perceived = e1rmPerceived(LookWeight, a.reps, 0)
             /\ fnOut[1].perceived = PerceivedFromBase(LookWeight, a.reps, 1000)
        /\ a.rpe < 13 * (Scale \div 2) =>
             /\ fnOut[1].percent = getPercentFromRPETable(a.reps, 13 * (Scale \div 2))
             /\ fnOut[1].percent = Rat(RPE_TABLE[row][13 * (Scale \div 2)], Tenth)
             /\ fnOut[1].perceived =
                  e1rmPerceived(LookWeight, a.reps, 7 * (Scale \div 2))
             /\ fnOut[1].perceived = PerceivedFromBase(LookWeight, a.reps, 878)

\* 13.5 reps at RPE 11 has been looked up and reads row 12 at RPE 10 (68.0)
C12_Witness ==
  /\ fnArgs # None
  /\ fnArgs[1].reps = 27 * (Scale \div 2)
  /\ fnArgs[1].rpe = 11 * Scale
  /\ fnOut[1].percent = Rat(680, 10)
  /\ fnOut[1].perceived = Rat(LookWeight * 100, 75)

\* the keys at minimal distance from the clamped RPE
NearestKeysOfRPE(rpe) ==
  LET c == ClampRPE(rpe)
  IN  {k \in RPEKeys : \A k2 \in RPEKeys : Abs(c - k) <= Abs(c - k2)}

\* the clamped RPE lies midway between two adjacent keys
Equidistant(rpe) ==
  \E k \in RPEKeys :
    /\ k + (Scale \div 2) \in RPEKeys
    /\ 2 * ClampRPE(rpe) = 2 * k + (Scale \div 2)

HigherKey(S) == CHOOSE k \in S : \A k2 \in S : k2 <= k

\* C13: in the table lookup and in the base-row lookup an RPE midway between
\* two adjacent keys resolves to the higher of the two (9.25 reads 9.5), and
\* any other RPE resolves to the one key at minimal distance
C13_TieResolvesToHigherKey ==
  fnArgs # None =>
    LET a    == fnArgs[1]
        near == NearestKeysOfRPE(a.rpe)
        key  == HigherKey(near)
    IN  /\ Cardinality(near) = (IF Equidistant(a.rpe) THEN 2 ELSE 1)
        /\ Equidistant(a.rpe) =>
             near = {key - (Scale \div 2), key}
        /\ fnOut[1].percent = Rat(RPE_TABLE[RowOfReps(a.reps)][key], Tenth)
        /\ fnOut[1].perceived =
             PerceivedFromBase(LookWeight, a.reps, NSCA_BASE_ROW[key])
        /\ (a.reps = Scale /\ 4 * a.rpe = 37 * Scale) =>
             /\ fnOut[1].percent = Rat(978, 10)
             /\ fnOut[1].perceived = Rat(LookWeight * 1000, 978)

\* RPE 9.25 with 1 rep has been looked up and both lookups read the key 9.5
C13_Witness ==
  /\ fnArgs # None
  /\ fnArgs[1].reps = Scale
  /\ 4 * fnArgs[1].rpe = 37 * Scale
  /\ Equidistant(fnArgs[1].rpe)
  /\ fnOut[1].percent = Rat(978, 10)
  /\ fnOut[1].perceived = Rat(LookWeight * 1000, 978)

Classified == fnArgs # None /\ fnArgs[1].fn = "classify"

Clamped == fnArgs # None /\ fnArgs[1].fn = "clamp"

\* the arguments are reps whole reps at rir whole RIR in the zone
ClassifiedAs(reps, rir, zone) ==
  /\ Classified
  /\ fnArgs[1].reps = Scale * reps
  /\ fnArgs[1].rir = Scale * rir
  /\ fnArgs[1].zone = zone

\* C14: isInTopOfRange holds exactly when reps >= zone.high and RIR <=
\* zone.targetRIR, isBelowRange exactly when reps < zone.low or RIR >
\* zone.targetRIR + 1; for HYPERTROPHY (12, 2) is top and not below, (12, 3)
\* is not top, (5, 4) is below and not top
C14_ZonePredicates ==
  Classified =>
    LET a    == fnArgs[1]
        zone == ZONE_PRESETS[a.zone]
    IN  /\ fnOut[1].inTopOfRange =
             (a.reps >= Scale * zone.high /\ a.rir <= Scale * zone.targetRIR)
        /\ fnOut[1].belowRange =
             (a.reps < Scale * zone.low \/ a.rir > Scale * (zone.targetRIR + 1))
        /\ ClassifiedAs(12, 2, "HYPERTROPHY") =>
             (fnOut[1].inTopOfRange /\ ~fnOut[1].belowRange)
        /\ ClassifiedAs(12, 3, "HYPERTROPHY") => ~fnOut[1].inTopOfRange
        /\ ClassifiedAs(5, 4, "HYPERTROPHY") =>
             (fnOut[1].belowRange /\ ~fnOut[1].inTopOfRange)

\* 12 reps at RIR 2 has been classified for HYPERTROPHY: top, not below
C14_Witness ==
  /\ ClassifiedAs(12, 2, "HYPERTROPHY")
  /\ fnOut[1].inTopOfRange
  /\ ~fnOut[1].belowRange

\* C15: clampToZoneReps returns zone.defaultReps for an absent or falsy
\* targetReps (0 included), otherwise targetReps clamped into [zone.low,
\* zone.high]; the result always lies in [zone.low, zone.high]; HYPERTROPHY
\* gives 8 for undefined and 12 for 30
C15_ClampToZoneReps ==
  Clamped =>
    LET a    == fnArgs[1]
        zone == ZONE_PRESETS[a.zone]
        out  == fnOut[1].reps
    IN  /\ zone.low <= out /\ out <= zone.high
        /\ (a.targetReps = None \/ a.targetReps = Some(0)) => out = zone.defaultReps
        /\ (a.targetReps # None /\ a.targetReps # Some(0)) =>
             LET t == a.targetReps[1]
             IN  /\ t < zone.low => out = zone.low
                 /\ t > zone.high => out = zone.high
                 /\ (zone.low <= t /\ t <= zone.high) => out = t
        /\ (a.zone = "HYPERTROPHY" /\ a.targetReps = None) => out = 8
        /\ (a.zone = "HYPERTROPHY" /\ a.targetReps = Some(30)) => out = 12

\* 30 target reps have been clamped for HYPERTROPHY and give 12
C15_Witness ==
  /\ Clamped
  /\ fnArgs[1].zone = "HYPERTROPHY"
  /\ fnArgs[1].targetReps = Some(30)
  /\ fnOut[1].reps = 12

\* C26 as stated: for at least one goal some (reps, RIR) makes both
\* isInTopOfRange and isBelowRange true
C26_AsStated ==
  \E zone \in GoalNames, reps \in ZoneReps, rir \in ZoneRirs :
    isInTopOfRange(reps, rir, zone) /\ isBelowRange(reps, rir, zone)

\* C26: with the presets isInTopOfRange and isBelowRange never hold
\* together, for any goal and any (reps, RIR): the first needs reps >= high
\* and RIR <= targetRIR, the second reps < low <= high or RIR > targetRIR + 1
C26_NeverTopAndBelow ==
  /\ \A zone \in GoalNames :
       shared.ZONE_PRESETS[zone].low <= shared.ZONE_PRESETS[zone].high
  /\ Classified => ~(fnOut[1].inTopOfRange /\ fnOut[1].belowRange)
  /\ Classified =>
       (fnOut[1].inTopOfRange =>
          /\ fnArgs[1].reps >= Scale * ZONE_PRESETS[fnArgs[1].zone].low
          /\ fnArgs[1].rir <= Scale * (ZONE_PRESETS[fnArgs[1].zone].targetRIR + 1))

\* the boundary pairs of ENDURANCE, whose low is the high of HYPERTROPHY:
\* 20 reps at RIR 2 is top and not below, 20 reps at RIR 3.5 is below and
\* not top
C26_Witness ==
  /\ Classified
  /\ fnArgs[1].zone = "ENDURANCE"
  /\ fnArgs[1].reps = 20 * Scale
  /\ \/ (fnArgs[1].rir = 2 * Scale /\ fnOut[1].inTopOfRange /\ ~fnOut[1].belowRange)
     \/ (fnArgs[1].rir = 7 * (Scale \div 2) /\ ~fnOut[1].inTopOfRange /\ fnOut[1].belowRange)

Magnitude(x) == IF x.n < 0 THEN RNeg(x) ELSE x

\* the load before rounding of the state's loadFromBaselineUsingPercent or
\* roundToNearest25lbs (in pounds)
Unrounded ==
  IF fnArgs[1].fn = "load"
  THEN RDiv(RMul(fnArgs[1].baseline,
                 getPercentFromRPETable(fnArgs[1].reps, 10 * Scale - fnArgs[1].rir)),
            IntNum(100))
  ELSE fnArgs[1].value

RoundedTo == IF fnArgs[1].fn = "load" THEN fnOut[1].load ELSE fnOut[1].lbs

\* a rounding of a load counted in the unit of the increment has been made
RoundedExactly ==
  /\ fnArgs # None
  /\ fnArgs[1].fn \in {"load", "lbs"}
  /\ fnArgs[1].fn = "lbs" => fnArgs[1].unit = "lbs"

HalfwayLoad ==
  RoundedExactly /\ Magnitude(RSub(RoundedTo, Unrounded)) = Rat(5, 4)

\* C27 as stated: a load halfway between two multiples of 2.5 goes to the
\* multiple farther from zero
C27_AsStated ==
  HalfwayLoad => RGreater(Magnitude(RoundedTo), Magnitude(Unrounded))

\* C27: the load goes to the nearest multiple of 2.5, and a load halfway
\* between two multiples goes to the greater one: away from zero for a
\* positive load, towards zero for a negative one
C27_RoundsHalfUp ==
  /\ (fnArgs # None /\ fnArgs[1].fn \in {"load", "lbs"}) =>
       RDiv(RoundedTo, Rat(5, 2)).d = 1
  /\ RoundedExactly =>
       ~RGreater(Magnitude(RSub(RoundedTo, Unrounded)), Rat(5, 4))
  /\ HalfwayLoad => RGreater(RoundedTo, Unrounded)
  /\ (HalfwayLoad /\ Unrounded.n > 0) =>
       RGreater(Magnitude(RoundedTo), Magnitude(Unrounded))
  /\ (HalfwayLoad /\ Unrounded.n < 0) =>
       RLess(Magnitude(RoundedTo), Magnitude(Unrounded))

\* a baseline of -3.75 at 100 percent has been rounded by
\* loadFromBaselineUsingPercent: the load -3.75 goes to -2.5
C27_Witness ==
  /\ HalfwayLoad
  /\ fnArgs[1].fn = "load"
  /\ fnArgs[1].baseline = Rat(-15, 4)
  /\ Unrounded = Rat(-15, 4)
  /\ RoundedTo = Rat(-5, 2)

\* C29: RPE_TABLE has the rows 1..12 and in each the eight RPE keys; at
\* fixed reps the percentage strictly increases with the RPE and at fixed RPE
\* it strictly decreases as the reps grow; getPercentFromRPETable does not
\* decrease when the RPE grows (by an eighth, a half or a whole point), does
\* not increase when the reps grow (by an eighth, a half or one rep), and
\* returns a value from 58.6 to 100
C29_TableMonotone ==
  /\ DOMAIN shared.RPE_TABLE = 1..12
  /\ \A r \in 1..12 :
       /\ DOMAIN shared.RPE_TABLE[r] = RPEKeys
       /\ \A k \in RPEKeys :
            /\ (k + (Scale \div 2) \in RPEKeys) =>
                 shared.RPE_TABLE[r][k] < shared.RPE_TABLE[r][k + (Scale \div 2)]
            /\ r < 12 => shared.RPE_TABLE[r][k] > shared.RPE_TABLE[r + 1][k]
  /\ (fnArgs # None /\ "rpe" \in DOMAIN fnArgs[1]) =>
       LET a == fnArgs[1]
           p == fnOut[1].percent
       IN  /\ ~RLess(p, Rat(586, 10))
           /\ ~RGreater(p, IntNum(100))
           /\ \A step \in {1, Scale \div 2, Scale} :
                /\ ~RLess(getPercentFromRPETable(a.reps, a.rpe + step), p)
                /\ ~RGreater(getPercentFromRPETable(a.reps + step, a.rpe), p)

\* 12 reps at RPE 6.5 has been looked up and gives 58.6, the least value;
\* 11 reps and RPE 7 give more
C29_Witness ==
  /\ fnArgs # None
  /\ "rpe" \in DOMAIN fnArgs[1]
  /\ fnArgs[1].reps = 12 * Scale
  /\ fnArgs[1].rpe = 13 * (Scale \div 2)
  /\ fnOut[1].percent = Rat(586, 10)
  /\ RGreater(getPercentFromRPETable(11 * Scale, fnArgs[1].rpe), fnOut[1].percent)
  /\ RGreater(getPercentFromRPETable(fnArgs[1].reps, 7 * Scale), fnOut[1].percent)

LookedUp(reps, rpe) ==
  /\ fnArgs # None
  /\ fnArgs[1].reps = Scale * reps
  /\ fnArgs[1].rpe = Scale * rpe

====
